---- MODULE Spec2Model ----
(***************************************************************************)
(* A model of pydatalake / pydala:                                         *)
(*   - the schema unifier  (src/src/pydala/utils/dataset.py),              *)
(*   - the dataset Writer  (src/src/pydatalake/dataset.py, class Writer),  *)
(*   - the lazy Reader     (src/src/pydatalake/dataset.py, class Reader).  *)
(* Each part has its own specification: SpecUnify, SpecWriter, SpecReader. *)
(***************************************************************************)
EXTENDS Integers, Sequences, FiniteSets, TLC

(***************************************************************************)
(* State of the schema unifier: schema_auto_conversion and its fold.       *)
(***************************************************************************)
VARIABLES
    family,         \* "pyarrow" (pa.Schema inputs) or "polars" (dict inputs)
    first_schema,   \* schemas[0]
    all_identical,  \* history: every schema consumed so far equals schemas[0]
    n_schemas,      \* number of schemas of the list consumed so far
    prev_schema,    \* the first argument of the latest pairwise conversion
    schema2,        \* the loop variable schema2: its second argument
    schema,         \* the local `schema` of schema_auto_conversion (the fold)
    schemas_qual_,  \* the flag returned by the latest pairwise conversion
    schemas_equal,  \* the aggregate flag of schema_auto_conversion
    upc,            \* "loop" | "returned" | "raised"
    uerror          \* the exception raised ("" when none)

uvars == <<family, first_schema, all_identical, n_schemas, prev_schema, schema2,
           schema, schemas_qual_, schemas_equal, upc, uerror>>

(***************************************************************************)
(* State of one Writer and of the write_dataset calls made on it.          *)
(***************************************************************************)
VARIABLES
    w_partitioning,   \* self._partitioning: None or a list of column names
    table,            \* the rows of the relation handed to write_dataset
    table_kind,       \* the Python type of the `table` argument
    partitioning,     \* the `partitioning` argument: None, a str or a list
    n_rows,           \* the `n_rows` argument: 0 for None, else a positive integer
    with_temp_table,  \* the `with_temp_table` argument
    writes,           \* the write_table calls of the latest write_dataset call
    prev_writes,      \* the write_table calls of the call before the latest
    prev_single_file, \* the call before the latest was unpartitioned, unchunked
    temp_tables_w,    \* temp tables registered by the Writer
    wpc,              \* "idle" | "returned" | "raised"
    werror,           \* the exception raised by the latest call ("" when none)
    wline             \* the source line that raised it (0 when none)

wvars == <<w_partitioning, table, table_kind, partitioning, n_rows,
           with_temp_table, writes, prev_writes, prev_single_file,
           temp_tables_w, wpc, werror, wline>>

(***************************************************************************)
(* State of one Reader, of its connection's catalog and of the files.      *)
(***************************************************************************)
VARIABLES
    r_format,         \* self._format
    r_filesystem,     \* self._filesystem: "None", "fsspec" (has isfile) or "pyarrow"
    r_is_file,        \* whether self._path is a single file (else a directory)
    storage_version,  \* the version of the data now in the files
    has_pa_dataset,   \* hasattr(self, "_pa_dataset")
    has_pa_table,     \* hasattr(self, "_pa_table")
    pa_table,         \* self._pa_table (NoTable while the attribute is unset)
    reg_pa_dataset,   \* the catalog name pa_dataset is registered
    reg_pa_table,     \* the table registered as pa_table (NoTable when none)
    temp_tables,      \* the temp tables of the connection: name -> data version
    storage_reads,    \* reads of the files' data made so far
    dataset_loads,    \* calls of _load_dataset made so far
    pa_table_calls,   \* accesses of the pa_table property made so far
    pa_table_reads,   \* reads of the files' data made inside those accesses
    last_op,          \* the latest Reader operation
    returned,         \* what it returned
    rerror            \* the exception it raised ("" when none)

rvars == <<r_format, r_filesystem, r_is_file, storage_version, has_pa_dataset,
           has_pa_table, pa_table, reg_pa_dataset, reg_pa_table, temp_tables,
           storage_reads, dataset_loads, pa_table_calls, pa_table_reads,
           last_op, returned, rerror>>

vars == <<uvars, wvars, rvars>>

(***************************************************************************)
(* Bounds of the model.                                                    *)
(***************************************************************************)
\* Longest list of schemas handed to schema_auto_conversion.
MaxSchemas == 3

(***************************************************************************)
(* Part 1: schema unification (pydala/utils/dataset.py).                   *)
(*                                                                         *)
(* A schema is a sequence of fields [name, type] with distinct names: the  *)
(* order of the sequence is the column order.  A type is a string.         *)
(***************************************************************************)
\* dtype_rank of _pyarrow_schema_auto_conversion.
PyarrowDtypeRank ==
    <<"int8", "int16", "int32", "int64", "float16", "float32", "float64", "string">>

\* dtype_rank of _polars_schema_auto_conversion.
PolarsDtypeRank ==
    <<"Int8", "Int16", "Int32", "Int64", "Float32", "Float64", "Utf8">>

\* Types of each library that are in neither list.
PyarrowUnranked == {"bool", "date32"}
PolarsUnranked == {"Boolean", "Date"}

DtypeRank(fam) == IF fam = "pyarrow" THEN PyarrowDtypeRank ELSE PolarsDtypeRank
Unranked(fam) == IF fam = "pyarrow" THEN PyarrowUnranked ELSE PolarsUnranked

Range(seq) == {seq[i] : i \in 1..Len(seq)}
Ranked(fam) == Range(DtypeRank(fam))
Types(fam) == Ranked(fam) \cup Unranked(fam)

\* Python's `x in list`.
InList(x, list) == \E i \in 1..Len(list) : list[i] = x

\* Python's list.index(x): the zero-based position of the first x.
ListIndex(list, x) ==
    (CHOOSE i \in 1..Len(list) :
        list[i] = x /\ \A j \in 1..(i - 1) : list[j] # x) - 1

\* `rank = dtype_rank.index(type) if type in dtype_rank else 0`.
Rank(dtype_rank, type) ==
    IF InList(type, dtype_rank) THEN ListIndex(dtype_rank, type) ELSE 0

\* `>=` for `>`.
KeptTypeFirstOnTie(dtype_rank, type1, type2) ==
    IF Rank(dtype_rank, type1) >= Rank(dtype_rank, type2) THEN type1 ELSE type2

\* The comparison dropped: the second schema's type always wins.
KeptTypeAlwaysSecond(dtype_rank, type1, type2) == type2

\* `type1 if rank1 > rank2 else type2`, reached when type1 != type2.
KeptType(dtype_rank, type1, type2) ==
    IF Rank(dtype_rank, type1) > Rank(dtype_rank, type2) THEN type1 ELSE type2

\* The body of the per-column loop: the type appended for one column.
FieldType(dtype_rank, type1, type2) ==
    IF type1 # type2 THEN KeptType(dtype_rank, type1, type2) ELSE type1

Names(s) == [i \in 1..Len(s) |-> s[i].name]
HasField(s, name) == \E i \in 1..Len(s) : s[i].name = name

\* schema.field(name).type / schema[name]; only used when HasField(s, name).
TypeOf(s, name) == s[CHOOSE i \in 1..Len(s) : s[i].name = name].type

\* The fields the loop builds, in the order of schema1's names.
ConvertedFields(dtype_rank, schema1, s2) ==
    [i \in 1..Len(schema1) |->
        [name |-> schema1[i].name,
         type |-> FieldType(dtype_rank, schema1[i].type, TypeOf(s2, schema1[i].name))]]

\* `schemas_equal = False` run for every column instead of under the `if`.
FieldsEqualFlagCleared(schema1, s2) == Len(schema1) = 0

\* schemas_equal of one conversion: no column of schema1 had type1 != type2.
FieldsEqual(schema1, s2) ==
    \A i \in 1..Len(schema1) : schema1[i].type = TypeOf(s2, schema1[i].name)

\* schema2.field(name) / schema2[name] raises KeyError for a name of schema1
\* that schema2 lacks; the loop never looks at names only schema2 has.
LookupFails(schema1, s2) ==
    \E i \in 1..Len(schema1) : ~HasField(s2, schema1[i].name)

Conversion(dtype_rank, schema1, s2) ==
    IF LookupFails(schema1, s2)
    THEN [raised |-> TRUE, error |-> "KeyError", schema |-> <<>>, equal |-> FALSE]
    ELSE [raised |-> FALSE, error |-> "",
          schema |-> ConvertedFields(dtype_rank, schema1, s2),
          equal |-> FieldsEqual(schema1, s2)]

pyarrow_schema_auto_conversion(schema1, s2) ==
    Conversion(PyarrowDtypeRank, schema1, s2)

polars_schema_auto_conversion(schema1, s2) ==
    Conversion(PolarsDtypeRank, schema1, s2)

\* The dispatch of schema_auto_conversion on isinstance(schema, pa.Schema).
PairwiseConversion(fam, schema1, s2) ==
    IF fam = "pyarrow"
    THEN pyarrow_schema_auto_conversion(schema1, s2)
    ELSE polars_schema_auto_conversion(schema1, s2)

\* `if not schemas_qual_: schemas_equal = schemas_qual_`.
Aggregate(aggregate, step) == IF ~step THEN step ELSE aggregate

(***************************************************************************)
(* The schemas the model draws its inputs from: column "a" takes every     *)
(* type of the library, column "b" the widest ranked and an unranked one.  *)
(***************************************************************************)
ColumnTypes(fam, name) ==
    IF name = "a" THEN Types(fam)
    ELSE {DtypeRank(fam)[Len(DtypeRank(fam))], CHOOSE t \in Unranked(fam) : TRUE}

Field(fam, name) == {[name |-> name, type |-> t] : t \in ColumnTypes(fam, name)}

Schemas(fam) ==
    {<<>>}
    \cup {<<f>> : f \in Field(fam, "a") \cup Field(fam, "b")}
    \cup {<<f, g>> : f \in Field(fam, "a"), g \in Field(fam, "b")}
    \cup {<<g, f>> : f \in Field(fam, "a"), g \in Field(fam, "b")}

\* schema_auto_conversion up to the loop: schema = schemas[0].
UnifyInit ==
    /\ family \in {"pyarrow", "polars"}
    /\ first_schema \in Schemas(family)
    /\ schema = first_schema
    /\ all_identical = TRUE
    /\ n_schemas = 1
    /\ prev_schema = <<>>
    /\ schema2 = <<>>
    /\ schemas_qual_ = TRUE
    /\ schemas_equal = TRUE
    /\ upc = "loop"
    /\ uerror = ""

\* One iteration of `for schema2 in schemas[1:]`.
FoldStep ==
    /\ upc = "loop"
    /\ n_schemas < MaxSchemas
    /\ \E s2 \in Schemas(family) :
        LET r == PairwiseConversion(family, schema, s2) IN
        /\ schema2' = s2
        /\ prev_schema' = schema
        /\ n_schemas' = n_schemas + 1
        /\ all_identical' = (all_identical /\ s2 = first_schema)
        /\ IF r.raised
           THEN /\ upc' = "raised"
                /\ uerror' = r.error
                /\ UNCHANGED <<schema, schemas_qual_, schemas_equal>>
           ELSE /\ schema' = r.schema
                /\ schemas_qual_' = r.equal
                /\ schemas_equal' = Aggregate(schemas_equal, r.equal)
                /\ UNCHANGED <<upc, uerror>>
    /\ UNCHANGED <<family, first_schema>>
    /\ UNCHANGED <<wvars, rvars>>

\* `return schema, schemas_equal` once the list is exhausted.
FoldReturn ==
    /\ upc = "loop"
    /\ upc' = "returned"
    /\ UNCHANGED <<family, first_schema, all_identical, n_schemas, prev_schema,
                   schema2, schema, schemas_qual_, schemas_equal, uerror>>
    /\ UNCHANGED <<wvars, rvars>>

UnifyNext == FoldStep \/ FoldReturn

\* The state of this part when another part is the one being run.
UnifyIdle ==
    /\ family = "pyarrow"
    /\ first_schema = <<>>
    /\ schema = <<>>
    /\ all_identical = TRUE
    /\ n_schemas = 0
    /\ prev_schema = <<>>
    /\ schema2 = <<>>
    /\ schemas_qual_ = TRUE
    /\ schemas_equal = TRUE
    /\ upc = "idle"
    /\ uerror = ""

(***************************************************************************)
(* Part 2: the dataset Writer (pydatalake/dataset.py, class Writer).       *)
(*                                                                         *)
(* A relation is a sequence of rows; a row is a record of its two          *)
(* partition columns, and its position in the sequence is its identity.    *)
(* A missing value (SQL NULL, Python None) is the string "NULL".           *)
(* A partitioning is a record [kind, columns]: kind "None" (Python's None),*)
(* "str" (one column name) or "list" (a list of column names).  n_rows is  *)
(* 0 for None.                                                             *)
(***************************************************************************)
\* Most rows of a relation, and the largest n_rows.
MaxRows == 2
MaxNRows == 2

NoPartitioning == [kind |-> "None", columns |-> <<>>]
ListPartitioning(columns) == [kind |-> "list", columns |-> columns]
StrPartitioning(column) == [kind |-> "str", columns |-> <<column>>]

Regions == {"EU", "US", "NULL"}
Days == {"mon", "tue"}
Rows == [region : Regions, day : Days]

RECURSIVE SeqsUpTo(_, _)
SeqsUpTo(S, n) ==
    IF n = 0 THEN {<<>>}
    ELSE LET shorter == SeqsUpTo(S, n - 1)
         IN  shorter \cup {Append(q, x) : q \in {r \in shorter : Len(r) = n - 1}, x \in S}

Relations == SeqsUpTo(Rows, MaxRows)

\* The lists of partition columns a Writer is configured with.
PartitionLists == {<<"region">>, <<"region", "day">>, <<"day", "region">>}

TableKinds ==
    {"DuckDBPyRelation", "pa.Table", "ds.Dataset", "pd.DataFrame", "pl.DataFrame", "str"}

Raise(error, line) == [raised |-> TRUE, error |-> error, line |-> line]
NoRaise == [raised |-> FALSE, error |-> "", line |-> 0]

\* _to_duckdbrelation: every branch but the last uses self.ddb or self.query,
\* which Writer never sets (Writer.__init__ makes no connection): only an
\* input that is already a relation comes back.
to_duckdbrelation(kind) ==
    CASE kind = "pa.Table" -> Raise("AttributeError", 193)
      [] kind = "ds.Dataset" -> Raise("AttributeError", 196)
      [] kind = "pd.DataFrame" -> Raise("AttributeError", 198)
      [] kind = "pl.DataFrame" -> Raise("AttributeError", 200)
      [] kind = "str" -> Raise("AttributeError", 203)
      [] OTHER -> NoRaise

\* _make_temp_table calls self._to_duckdbrelation(table, use_temp_table=False):
\* _to_duckdbrelation has no such parameter, so the call raises before any
\* temp table is created.
make_temp_table == Raise("TypeError", 223)

\* The call self._gen_path(path=path, partition_names=...): _gen_path takes
\* partition_names only, so the call raises before the body runs.
gen_path_call(line) == Raise("TypeError", line)

\* The value of one row at a list of columns: a partition key tuple.
KeyTuple(row, columns) == [i \in 1..Len(columns) |-> row[columns[i]]]

\* table_.project(",".join(partitioning)).distinct().fetchall(), as a set: the
\* order in which the engine returns the tuples is not fixed.
Partitions(rel, columns) == {KeyTuple(rel[i], columns) : i \in 1..Len(rel)}

\* write_dataset, from its first line to the first exception or its return.
\* The partition loop raises in its first iteration, at the _gen_path call, so
\* the filter, the chunk loop and write_table (lines 310-333) are never reached;
\* with no partition tuple (an empty relation) the loop body never runs.
write_dataset_outcome(kind, part_arg, temp, self_partitioning, rel) ==
    IF to_duckdbrelation(kind).raised THEN to_duckdbrelation(kind)
    ELSE IF temp THEN make_temp_table
    ELSE IF part_arg.kind # "None" THEN Raise("NameError", 296)
    ELSE IF self_partitioning.kind # "None"
         THEN IF Partitions(rel, self_partitioning.columns) = {}
              THEN NoRaise
              ELSE gen_path_call(305)
         ELSE gen_path_call(336)

WriterInit ==
    /\ w_partitioning \in {NoPartitioning} \cup {ListPartitioning(p) : p \in PartitionLists}
    /\ table \in Relations
    /\ table_kind = "DuckDBPyRelation"
    /\ partitioning = NoPartitioning
    /\ n_rows = 0
    /\ with_temp_table = TRUE
    /\ writes = <<>>
    /\ prev_writes = <<>>
    /\ prev_single_file = FALSE
    /\ temp_tables_w = {}
    /\ wpc = "idle"
    /\ werror = ""
    /\ wline = 0

\* The latest call was one that is to write the whole relation to one file: a
\* relation, no temp table, no partitioning (the argument's or the Writer's)
\* and no n_rows.
SingleFileCall ==
    /\ wpc # "idle"
    /\ table_kind = "DuckDBPyRelation"
    /\ ~with_temp_table
    /\ partitioning.kind = "None"
    /\ w_partitioning.kind = "None"
    /\ n_rows = 0

\* One call of Writer.write_dataset on the relation.  No path of the method
\* reaches write_table or creates a temp table: the call's log of writes is
\* empty and temp_tables_w is left as it is.
write_dataset ==
    \E kind \in TableKinds,
       part_arg \in {NoPartitioning, StrPartitioning("region"),
                    ListPartitioning(<<"region">>)},
       rows \in 0..MaxNRows,
       temp \in BOOLEAN :
        LET r == write_dataset_outcome(kind, part_arg, temp, w_partitioning, table) IN
        /\ table_kind' = kind
        /\ partitioning' = part_arg
        /\ n_rows' = rows
        /\ with_temp_table' = temp
        /\ wpc' = IF r.raised THEN "raised" ELSE "returned"
        /\ werror' = r.error
        /\ wline' = r.line
        /\ writes' = <<>>
        /\ prev_writes' = writes
        /\ prev_single_file' = SingleFileCall
        /\ UNCHANGED <<w_partitioning, table, temp_tables_w>>
        /\ UNCHANGED <<uvars, rvars>>

WriterNext == write_dataset

WriterIdle ==
    /\ w_partitioning = NoPartitioning
    /\ table = <<>>
    /\ table_kind = "DuckDBPyRelation"
    /\ partitioning = NoPartitioning
    /\ n_rows = 0
    /\ with_temp_table = TRUE
    /\ writes = <<>>
    /\ prev_writes = <<>>
    /\ prev_single_file = FALSE
    /\ temp_tables_w = {}
    /\ wpc = "idle"
    /\ werror = ""
    /\ wline = 0

(***************************************************************************)
(* Part 3: the lazy Reader (pydatalake/dataset.py, class Reader).          *)
(*                                                                         *)
(* The files under the Reader's path hold the data of storage_version; a   *)
(* table or temp table is modelled by the version of the data it holds and *)
(* by where it was filled from.                                            *)
(***************************************************************************)
\* Bounds: rewrites of the files by others, reads of the files, and accesses
\* of pa_table, that one run of the model follows.
MaxVersion == 2
MaxReads == 3
MaxCalls == 3

TempNames == {"temp_table", "other_table"}

NoTable == [data |-> -1, origin |-> "none"]
Nothing == [kind |-> "none", source |-> "none", data |-> -1]

\* SHOW TABLES: the names create_temp_table has created.
ShowTables == DOMAIN temp_tables

\* hasattr(self, "_ds"): no method of Reader ever sets self._ds.
HasDs == FALSE

\* _load_table reads a parquet source or a single file directly; any other
\* source goes through self._pa_dataset.to_table().
ReadsThroughDataset == r_format # "parquet" /\ ~r_is_file

\* `if not hasattr(self, "_ds"): self._load_dataset()` inside _load_table.
LoadTableLoadsDataset == ReadsThroughDataset /\ ~HasDs

\* The lookup of the temp table left out: pa_table always reads the files.
TempTableExistsNever == FALSE

\* `name in self.execute("SHOW TABLES").df()["name"].tolist()` with the default
\* name = "temp_table" (a property access passes no name).
TempTableExists == "temp_table" \in ShowTables

\* The cached table preferred to the temp table.
RelationSourceTableFirst ==
    IF has_pa_table THEN "pa_table"
    ELSE IF TempTableExists THEN "temp_table"
    ELSE "pa_dataset"

\* The if / elif / else of ddb_relation: what the relation is made from.
RelationSource ==
    IF TempTableExists THEN "temp_table"
    ELSE IF has_pa_table THEN "pa_table"
    ELSE "pa_dataset"

\* The accessor reloading on every access.
PaTableMissAlways == TRUE

\* `not hasattr(self, "_pa_table") or len(kwargs) > 0`: a property access
\* passes no keyword arguments.
PaTableMiss == ~has_pa_table

\* `not hasattr(self, "_pa_dataset") or len(kwargs) > 0`, likewise.
PaDatasetMiss == ~has_pa_dataset

ReaderInit ==
    /\ r_format \in {"parquet", "feather"}
    /\ r_filesystem \in {"None", "fsspec", "pyarrow"}
    /\ r_is_file \in BOOLEAN
    /\ storage_version = 0
    /\ has_pa_dataset = FALSE
    /\ has_pa_table = FALSE
    /\ pa_table = NoTable
    /\ reg_pa_dataset = FALSE
    /\ reg_pa_table = NoTable
    /\ temp_tables = <<>>
    /\ storage_reads = 0
    /\ dataset_loads = 0
    /\ pa_table_calls = 0
    /\ pa_table_reads = 0
    /\ last_op = "init"
    /\ returned = Nothing
    /\ rerror = ""

ReaderConfig == <<r_format, r_filesystem, r_is_file>>

\* Somebody else rewrites the files under the path.
StorageChanges ==
    /\ storage_version < MaxVersion
    /\ storage_version' = storage_version + 1
    /\ UNCHANGED <<ReaderConfig, has_pa_dataset, has_pa_table, pa_table,
                   reg_pa_dataset, reg_pa_table, temp_tables, storage_reads,
                   dataset_loads, pa_table_calls, pa_table_reads, last_op,
                   returned, rerror>>
    /\ UNCHANGED <<uvars, wvars>>

\* The pa_dataset property: _load_dataset on the first access.
PaDataset ==
    /\ has_pa_dataset' = TRUE
    /\ reg_pa_dataset' = (reg_pa_dataset \/ PaDatasetMiss)
    /\ dataset_loads' = dataset_loads + (IF PaDatasetMiss THEN 1 ELSE 0)
    /\ last_op' = "pa_dataset"
    /\ returned' = [kind |-> "dataset", source |-> "pa_dataset", data |-> -1]
    /\ rerror' = ""
    /\ UNCHANGED <<ReaderConfig, storage_version, has_pa_table, pa_table,
                   reg_pa_table, temp_tables, storage_reads, pa_table_calls,
                   pa_table_reads>>
    /\ UNCHANGED <<uvars, wvars>>

\* The body of the pa_table property.  On a miss: the temp table named
\* temp_table, when SHOW TABLES lists it, is fetched into self._pa_table and
\* nothing is registered; otherwise _load_table reads the files (through
\* _load_dataset for a directory that is not parquet) and registers pa_table.
PaTableGet ==
    /\ pa_table_calls < MaxCalls
    /\ pa_table_calls' = pa_table_calls + 1
    /\ IF PaTableMiss
       THEN IF TempTableExists
            THEN /\ pa_table' = [data |-> temp_tables["temp_table"], origin |-> "temp_table"]
                 /\ UNCHANGED <<has_pa_dataset, reg_pa_dataset, reg_pa_table,
                                storage_reads, pa_table_reads, dataset_loads>>
            ELSE /\ storage_reads < MaxReads
                 /\ has_pa_dataset' = (has_pa_dataset \/ LoadTableLoadsDataset)
                 /\ reg_pa_dataset' = (reg_pa_dataset \/ LoadTableLoadsDataset)
                 /\ dataset_loads' = dataset_loads + (IF LoadTableLoadsDataset THEN 1 ELSE 0)
                 /\ storage_reads' = storage_reads + 1
                 /\ pa_table_reads' = pa_table_reads + 1
                 /\ pa_table' = [data |-> storage_version, origin |-> "storage"]
                 /\ reg_pa_table' = pa_table'
       ELSE UNCHANGED <<pa_table, has_pa_dataset, reg_pa_dataset, reg_pa_table,
                        storage_reads, pa_table_reads, dataset_loads>>
    /\ has_pa_table' = TRUE
    /\ returned' = [kind |-> "table", source |-> pa_table'.origin, data |-> pa_table'.data]
    /\ UNCHANGED <<ReaderConfig, storage_version, temp_tables>>
    /\ UNCHANGED <<uvars, wvars>>

PaTable == PaTableGet /\ last_op' = "pa_table" /\ rerror' = ""

\* pl_dataframe evaluates self.pa_table(**kwargs): the property returns the
\* table, and calling a table raises TypeError.
PlDataframe ==
    /\ PaTableGet
    /\ last_op' = "pl_dataframe"
    /\ rerror' = "TypeError"

\* The ddb_relation property (filter goes through it).
DdbRelation ==
    /\ \E op \in {"ddb_relation", "filter"} : last_op' = op
    /\ rerror' = ""
    /\ IF RelationSource = "temp_table"
       THEN /\ returned' = [kind |-> "relation", source |-> "temp_table",
                            data |-> temp_tables["temp_table"]]
            /\ UNCHANGED <<has_pa_dataset, reg_pa_dataset, dataset_loads>>
       ELSE IF RelationSource = "pa_table"
       THEN /\ returned' = [kind |-> "relation", source |-> "pa_table",
                            data |-> pa_table.data]
            /\ UNCHANGED <<has_pa_dataset, reg_pa_dataset, dataset_loads>>
       ELSE /\ returned' = [kind |-> "relation", source |-> "pa_dataset", data |-> -1]
            /\ has_pa_dataset' = TRUE
            /\ reg_pa_dataset' = (reg_pa_dataset \/ PaDatasetMiss)
            /\ dataset_loads' = dataset_loads + (IF PaDatasetMiss THEN 1 ELSE 0)
    /\ UNCHANGED <<ReaderConfig, storage_version, has_pa_table, pa_table,
                   reg_pa_table, temp_tables, storage_reads, pa_table_calls,
                   pa_table_reads>>
    /\ UNCHANGED <<uvars, wvars>>

\* create_temp_table(name): from the catalog name pa_table when self._pa_table
\* is set (CatalogException when nothing is registered under that name), else
\* from pa_dataset, which scans the files.
CreateTempTable ==
    \E name \in TempNames :
        /\ last_op' = "create_temp_table"
        /\ returned' = Nothing
        /\ IF has_pa_table
           THEN /\ IF reg_pa_table # NoTable
                   THEN /\ temp_tables' =
                            [n \in ShowTables \cup {name} |->
                                IF n = name THEN reg_pa_table.data ELSE temp_tables[n]]
                        /\ rerror' = ""
                   ELSE /\ rerror' = "CatalogException"
                        /\ UNCHANGED temp_tables
                /\ UNCHANGED <<has_pa_dataset, reg_pa_dataset, dataset_loads, storage_reads>>
           ELSE /\ storage_reads < MaxReads
                /\ has_pa_dataset' = TRUE
                /\ reg_pa_dataset' = (reg_pa_dataset \/ ~has_pa_dataset)
                /\ dataset_loads' = dataset_loads + (IF has_pa_dataset THEN 0 ELSE 1)
                /\ storage_reads' = storage_reads + 1
                /\ temp_tables' =
                    [n \in ShowTables \cup {name} |->
                        IF n = name THEN storage_version ELSE temp_tables[n]]
                /\ rerror' = ""
        /\ UNCHANGED <<ReaderConfig, storage_version, has_pa_table, pa_table,
                       reg_pa_table, pa_table_calls, pa_table_reads>>
        /\ UNCHANGED <<uvars, wvars>>

ReaderNext ==
    \/ StorageChanges
    \/ PaDataset
    \/ PaTable
    \/ PlDataframe
    \/ DdbRelation
    \/ CreateTempTable

ReaderIdle ==
    /\ r_format = "parquet"
    /\ r_filesystem = "None"
    /\ r_is_file = TRUE
    /\ storage_version = 0
    /\ has_pa_dataset = FALSE
    /\ has_pa_table = FALSE
    /\ pa_table = NoTable
    /\ reg_pa_dataset = FALSE
    /\ reg_pa_table = NoTable
    /\ temp_tables = <<>>
    /\ storage_reads = 0
    /\ dataset_loads = 0
    /\ pa_table_calls = 0
    /\ pa_table_reads = 0
    /\ last_op = "idle"
    /\ returned = Nothing
    /\ rerror = ""

(***************************************************************************)
(* The three specifications: one part runs, the other two stay idle.       *)
(***************************************************************************)
InitUnify == UnifyInit /\ WriterIdle /\ ReaderIdle
SpecUnify == InitUnify /\ [][UnifyNext]_vars

InitWriter == WriterInit /\ UnifyIdle /\ ReaderIdle
SpecWriter == InitWriter /\ [][WriterNext]_vars

InitReader == ReaderInit /\ UnifyIdle /\ WriterIdle
SpecReader == InitReader /\ [][ReaderNext]_vars

(***************************************************************************)
(* Claims about the schema unifier, checked under SpecUnify.               *)
(***************************************************************************)
\* A pairwise conversion has run and returned: prev_schema and schema2 were
\* its arguments, schema and schemas_qual_ are what it returned.
Converted == n_schemas >= 2 /\ upc # "raised"

\* The position of a type in the Type-Rank Table of the family (1 = narrowest).
TablePosition(type) ==
    CHOOSE i \in 1..Len(DtypeRank(family)) : DtypeRank(family)[i] = type

\* C1: rank monotonicity.  When a column has two different ranked types in the
\* two schemas, the converted schema gives the column the type that stands
\* later in the Type-Rank Table, whether that type came from the first or from
\* the second schema.
C1_RankMonotonicity ==
    Converted =>
        \A i \in 1..Len(prev_schema) :
            LET type1 == prev_schema[i].type
                type2 == TypeOf(schema2, prev_schema[i].name)
            IN  (type1 \in Ranked(family) /\ type2 \in Ranked(family) /\ type1 # type2)
                => /\ schema[i].name = prev_schema[i].name
                   /\ schema[i].type =
                        IF TablePosition(type1) < TablePosition(type2)
                        THEN type2 ELSE type1

\* C1 witness: the wider ranked type stood in the first schema and was kept.
C1_Witness ==
    /\ Converted
    /\ \E i \in 1..Len(prev_schema) :
        LET type1 == prev_schema[i].type
            type2 == TypeOf(schema2, prev_schema[i].name)
        IN  /\ type1 \in Ranked(family) /\ type2 \in Ranked(family)
            /\ TablePosition(type1) > TablePosition(type2)
            /\ schema[i].type = type1

\* C2: a column with an unranked type in one schema and a ranked type in the
\* other always keeps the ranked type, for every ranked type and both argument
\* orders.
C2_RankedBeatsUnranked ==
    Converted =>
        \A i \in 1..Len(prev_schema) :
            LET type1 == prev_schema[i].type
                type2 == TypeOf(schema2, prev_schema[i].name)
            IN  /\ (type1 \in Ranked(family) /\ type2 \in Unranked(family))
                        => schema[i].type = type1
                /\ (type1 \in Unranked(family) /\ type2 \in Ranked(family))
                        => schema[i].type = type2

\* C3: idempotent unification.  Converting a schema against itself returns the
\* same schema (names, order, types) and the equality flag true.
C3_Idempotent ==
    (Converted /\ schema2 = prev_schema) =>
        (schema = prev_schema /\ schemas_qual_ = TRUE)

\* C3 witness: a schema of two columns was converted against itself.
C3_Witness ==
    Converted /\ schema2 = prev_schema /\ Len(prev_schema) = 2

\* C4: unranked tie-break.  When both schemas give a column different unranked
\* types, the second schema's type is kept and the equality flag is false.
C4_UnrankedTieBreak ==
    Converted =>
        \A i \in 1..Len(prev_schema) :
            LET type1 == prev_schema[i].type
                type2 == TypeOf(schema2, prev_schema[i].name)
            IN  (type1 \in Unranked(family) /\ type2 \in Unranked(family) /\ type1 # type2)
                => (schema[i].type = type2 /\ schemas_qual_ = FALSE)

\* C4 witness: a column with two different unranked types was converted.
C4_Witness ==
    /\ Converted
    /\ \E i \in 1..Len(prev_schema) :
        /\ prev_schema[i].type \in Unranked(family)
        /\ TypeOf(schema2, prev_schema[i].name) \in Unranked(family)
        /\ prev_schema[i].type # TypeOf(schema2, prev_schema[i].name)

\* C5: schema_auto_conversion returns the flag true exactly when all the
\* schemas of its input list are identical.
C5_FlagIffAllIdentical ==
    upc = "returned" => (schemas_equal <=> all_identical)

\* C6: converting two schemas whose sets of column names differ raises, in
\* both directions (a column only the first has, a column only the second has),
\* and returns no schema.
C6_MismatchRaises ==
    (n_schemas >= 2 /\ Range(Names(prev_schema)) # Range(Names(schema2)))
        => upc = "raised"

(***************************************************************************)
(* Claims about Writer.write_dataset, checked under SpecWriter.            *)
(***************************************************************************)
\* write_dataset has been called and has returned or raised.  The claims are
\* stated for the calls that get as far as the write branch: the input is a
\* relation already, no temp table is asked for, and the partitioning is the
\* Writer's own.
Called ==
    /\ wpc # "idle"
    /\ table_kind = "DuckDBPyRelation"
    /\ ~with_temp_table
    /\ partitioning.kind = "None"

\* The partitioning a call works with: the argument, else the Writer's.
EffectivePartitioning ==
    IF partitioning.kind # "None" THEN partitioning ELSE w_partitioning

\* The partition key tuples of the input (the one empty tuple when the call
\* does not partition), and the positions of the input rows of each.
SliceKeys ==
    IF EffectivePartitioning.kind = "None" THEN {<<>>}
    ELSE Partitions(table, EffectivePartitioning.columns)

SliceRows(key) ==
    {i \in 1..Len(table) :
        EffectivePartitioning.kind # "None"
            => KeyTuple(table[i], EffectivePartitioning.columns) = key}

WritesOf(key) == {w \in 1..Len(writes) : writes[w].partition_names = key}

\* How often input row i occurs in the tables written.
TimesWritten(i) ==
    Cardinality({<<w, k>> \in (1..Len(writes)) \X (1..MaxRows) :
                    k <= Len(writes[w].rows) /\ writes[w].rows[k] = i})

Ceil(a, b) == (a + b - 1) \div b

\* C7: chunk count.  A call with n_rows set makes, for every slice, exactly
\* ceil(row_count / n_rows) write_table calls, none of them empty and none
\* longer than n_rows, which together hold every row of the slice once.
C7_ChunkCount ==
    (Called /\ n_rows > 0) =>
        \A key \in SliceKeys :
            /\ Cardinality(WritesOf(key)) = Ceil(Cardinality(SliceRows(key)), n_rows)
            /\ \A w \in WritesOf(key) :
                Len(writes[w].rows) \in 1..n_rows
            /\ \A i \in SliceRows(key) : TimesWritten(i) = 1

\* C8: partition round-trip.  After a call with a list of partition columns
\* every input row, whatever its partition columns hold, is in the files
\* written exactly once.
C8_RoundTrip ==
    (Called /\ EffectivePartitioning.kind = "list") =>
        \A i \in 1..Len(table) : TimesWritten(i) = 1

\* C9: partition fan-out.  A partitioned call without n_rows makes exactly one
\* write per distinct partition key tuple, at the path of that tuple, holding
\* exactly the input rows of that tuple.
C9_FanOut ==
    (Called /\ EffectivePartitioning.kind # "None" /\ n_rows = 0) =>
        /\ Len(writes) = Cardinality(SliceKeys)
        /\ \A key \in SliceKeys :
            \E w \in WritesOf(key) : Range(writes[w].rows) = SliceRows(key)

\* The call registered its temp table: it got past _make_temp_table.
CreatedTempTable ==
    /\ with_temp_table
    /\ ~(wpc = "raised" /\ wline = 223)

C13_DistinctPaths ==
    (prev_single_file /\ SingleFileCall)
        => /\ Len(prev_writes) = 1
           /\ Len(writes) = 1
           /\ prev_writes[1].path # writes[1].path

(***************************************************************************)
(* Claims about the Reader, checked under SpecReader.                      *)
(***************************************************************************)
\* C10: cache hit.  Once self._pa_table is set, an access of pa_table reads
\* nothing from the files, leaves the cached table as it is and returns it;
\* and the accesses of pa_table made so far have read the files exactly once
\* when the table was loaded from the files (never more than once).
C10_CacheHit ==
    /\ [](pa_table_reads <= 1)
    /\ []((pa_table_calls >= 1 /\ pa_table.origin = "storage") => pa_table_reads = 1)
    /\ [][(has_pa_table /\ pa_table_calls' = pa_table_calls + 1)
            => /\ storage_reads' = storage_reads
               /\ pa_table_reads' = pa_table_reads
               /\ pa_table' = pa_table
               /\ returned' = [kind |-> "table", source |-> pa_table.origin,
                               data |-> pa_table.data]]_vars

\* C10 witness: pa_table was accessed at least twice, the table came from the
\* files, and the files have changed since it was loaded.
C10_Witness ==
    /\ pa_table_calls >= 2
    /\ last_op = "pa_table"
    /\ pa_table.origin = "storage"
    /\ returned.data = pa_table.data
    /\ storage_version > pa_table.data

\* C11: the source of ddb_relation.  The relation is made from the temp table
\* named temp_table when it exists, else from the cached table when one is
\* loaded, else from the dataset handle, which is then loaded and registered
\* if it was absent.  While a temp table or a cached table is there the
\* dataset handle is not touched, and the cached table is never changed.
C11_RelationPriority ==
    /\ [](last_op \in {"ddb_relation", "filter"} =>
            /\ ("temp_table" \in DOMAIN temp_tables) =>
                    /\ returned.source = "temp_table"
                    /\ returned.data = temp_tables["temp_table"]
            /\ ("temp_table" \notin DOMAIN temp_tables /\ has_pa_table) =>
                    /\ returned.source = "pa_table"
                    /\ returned.data = pa_table.data
            /\ ("temp_table" \notin DOMAIN temp_tables /\ ~has_pa_table) =>
                    /\ returned.source = "pa_dataset"
                    /\ has_pa_dataset /\ reg_pa_dataset)
    /\ [][last_op' \in {"ddb_relation", "filter"} =>
            /\ pa_table' = pa_table
            /\ has_pa_table' = has_pa_table
            /\ temp_tables' = temp_tables
            /\ ("temp_table" \in DOMAIN temp_tables \/ has_pa_table) =>
                    /\ dataset_loads' = dataset_loads
                    /\ has_pa_dataset' = has_pa_dataset
                    /\ reg_pa_dataset' = reg_pa_dataset]_vars

\* C11 witness: ddb_relation took the temp table although a cached table read
\* from the files and a dataset handle were there too.
C11_Witness ==
    /\ last_op = "ddb_relation"
    /\ returned.source = "temp_table"
    /\ has_pa_table /\ has_pa_dataset
    /\ pa_table.origin = "storage"

\* C15: a pa_table access with no cached table fills the table from the temp
\* table named temp_table when that exists, reading nothing from the files;
\* it reads the files only when no such temp table exists.
C15_TempTableReuse ==
    [][(~has_pa_table /\ pa_table_calls' = pa_table_calls + 1) =>
            IF "temp_table" \in DOMAIN temp_tables
            THEN /\ pa_table' = [data |-> temp_tables["temp_table"],
                                 origin |-> "temp_table"]
                 /\ storage_reads' = storage_reads
                 /\ pa_table_reads' = pa_table_reads
            ELSE /\ pa_table' = [data |-> storage_version, origin |-> "storage"]
                 /\ storage_reads' = storage_reads + 1]_vars

\* C15 witness: the cached table was filled from the temp table, with data the
\* files no longer hold, and pa_table has never read the files.
C15_Witness ==
    /\ has_pa_table
    /\ last_op = "pa_table"
    /\ pa_table.origin = "temp_table"
    /\ pa_table.data # storage_version
    /\ pa_table_reads = 0

\* C16: the dataset handle is constructed at most once, whatever accessors
\* are used.
C16_DatasetLoadedOnce == dataset_loads <= 1

\* C17: whenever a table is cached, the catalog name pa_table is registered
\* and refers to that table, and create_temp_table does not fail.
C17_PaTableRegistered ==
    /\ has_pa_table => reg_pa_table = pa_table
    /\ last_op = "create_temp_table" => rerror = ""

====
